---- MODULE Spec2Model ----
(***************************************************************************)
(* A model of app.py: the YouTube-transcript multiple-choice quiz          *)
(* application.  Three parts of the program are modelled:                  *)
(*   - parse_mcqs, the line-oriented parser of the generated text,         *)
(*     both as a pure operator and as a line-by-line state machine         *)
(*     (specification SpecParse);                                          *)
(*   - translate_text, the chunked translation (SpecTranslate);            *)
(*   - the Streamlit script itself: one script run per user event over     *)
(*     st.session_state (specification Spec).                              *)
(* Python strings are sequences of one-character strings, so that strip,   *)
(* split, startswith and slicing are computed as Python computes them.     *)
(***************************************************************************)
EXTENDS Integers, Sequences, FiniteSets, TLC

VARIABLES
    \* ---- parse_mcqs, line by line (SpecParse)
    mcqs_text,          \* the argument of parse_mcqs
    known,              \* the questions mcqs_text was formatted from, if any
    lines,              \* the lines of mcqs_text.split('\n') still to be read
    p_questions,        \* the local list `questions` of parse_mcqs
    current_question,   \* the local dict `current_question` of parse_mcqs
    p_pc,               \* "loop" | "done" | "KeyError"
    \* ---- translate_text, call by call (SpecTranslate)
    text,               \* the argument `text` of translate_text
    dest_language,      \* the argument `dest_language`
    chunks,             \* the local list `chunks` (line 50)
    calls,              \* the chunks handed to translator.translate so far, in order
    translated_chunks,  \* the translations returned so far (line 51)
    t_result,           \* the value returned by translate_text, if it returned
    t_pc,               \* "called" | "translating" | "done" | "TranslationFailure"
    \* ---- st.session_state (Spec)
    language,               \* st.session_state['language']
    video_url,              \* st.session_state['video_url']
    num_questions,          \* st.session_state['num_questions']
    submitted,              \* st.session_state['submitted']
    questions,              \* st.session_state['questions']: None, or a list
    answers,                \* st.session_state['answers'], if the key is set
    transcript,             \* st.session_state['transcript'], if the key is set
    translated_transcript,  \* st.session_state['translated_transcript'], if set
    \* ---- the widgets and the page of the last script run
    radio,                  \* the state of the radio widgets q0, q1, ...
    page,                   \* the widgets the last run rendered
    error,                  \* the exception that ended the last run, if any
    score,                  \* the score the last run computed, if any
    tr_call,                \* the call of translate_text of the last run, if any
    gen_call                \* the call of generate_mcqs of the last run, if any

parse_vars == <<mcqs_text, known, lines, p_questions, current_question, p_pc>>
translate_vars == <<text, dest_language, chunks, calls, translated_chunks, t_result, t_pc>>

session_vars == <<language, video_url, num_questions, submitted, questions, answers,
                  transcript, translated_transcript>>
run_vars == <<radio, page, error, score, tr_call, gen_call>>

vars == <<parse_vars, translate_vars, session_vars, run_vars>>

(***************************************************************************)
(* Bounds of the model.                                                    *)
(***************************************************************************)
\* the longest raw text SpecParse enumerates, in lines
MaxLines == 3
\* the longest sequence of known questions SpecParse formats and parses back
MaxKnown == 2
\* the longest text SpecTranslate translates, in characters
MaxTextLen == 1001
\* the most questions of a well-formed generated quiz (beside ExampleQuiz)
MaxQuestions == 2

(***************************************************************************)
(* Python strings.                                                         *)
(***************************************************************************)
NL == "\n"

\* Python's str.strip() whitespace, as far as the alphabet of the model goes
IsSpace(c) == c \in {" ", "\t", "\r", NL}

Min(S) == CHOOSE x \in S : \A y \in S : x <= y

\* the list [e(1), ..., e(n)] a comprehension f builds, as a sequence
List(f) == SubSeq(f, 1, Len(f))

\* s[i:] with a 0-based Python index i >= 0
SliceFrom(s, i) == SubSeq(s, i + 1, Len(s))

\* s.startswith(p)
StartsWith(s, p) == Len(p) <= Len(s) /\ SubSeq(s, 1, Len(p)) = p

RECURSIVE LStrip(_)
LStrip(s) ==
    IF s # <<>> /\ IsSpace(Head(s)) THEN LStrip(Tail(s)) ELSE s

RECURSIVE RStrip(_)
RStrip(s) ==
    IF s # <<>> /\ IsSpace(s[Len(s)]) THEN RStrip(SubSeq(s, 1, Len(s) - 1)) ELSE s

\* s.strip()
Strip(s) == RStrip(LStrip(s))

\* the 1-based position of the first occurrence of sep in s, 0 when there is none
Find(s, sep) ==
    LET hits == {i \in 1..(Len(s) - Len(sep) + 1) : SubSeq(s, i, i + Len(sep) - 1) = sep}
    IN  IF hits = {} THEN 0 ELSE Min(hits)

\* s.split(sep): the pieces of s between the occurrences of sep, left to right
RECURSIVE Split(_, _)
Split(s, sep) ==
    LET i == Find(s, sep)
    IN  IF i = 0
        THEN <<s>>
        ELSE <<SubSeq(s, 1, i - 1)>> \o Split(SubSeq(s, i + Len(sep), Len(s)), sep)

\* sep.join(parts)
RECURSIVE Join(_, _)
Join(parts, sep) ==
    IF parts = <<>> THEN <<>>
    ELSE IF Len(parts) = 1 THEN parts[1]
    ELSE parts[1] \o sep \o Join(Tail(parts), sep)

(***************************************************************************)
(* parse_mcqs (app.py 74-89).                                              *)
(* A Python dict is a record with the set of its keys; a field whose key   *)
(* is not in `keys` holds the empty string and is never read.              *)
(***************************************************************************)
QPrefix == <<"Q", ":">>
CorrectAnswerPrefix ==
    <<"C", "o", "r", "r", "e", "c", "t", " ", "A", "n", "s", "w", "e", "r", ":">>
OptionMarkers == {<<"A", ")">>, <<"B", ")">>, <<"C", ")">>, <<"D", ")">>}

EmptyDict == [keys |-> {}, question |-> <<>>, options |-> <<>>, correct_answer |-> <<>>]

\* the branch of the if/elif chain (lines 79-86) a stripped line takes
LineKind(line) ==
    IF StartsWith(line, QPrefix) THEN "Q"
    ELSE IF \E m \in OptionMarkers : StartsWith(line, m) THEN "option"
    ELSE IF StartsWith(line, CorrectAnswerPrefix) THEN "correct"
    ELSE "other"

\* line 82: {'question': line[2:].strip(), 'options': []}
NewQuestion(line) ==
    [keys |-> {"question", "options"}, question |-> Strip(SliceFrom(line, 2)),
     options |-> <<>>, correct_answer |-> <<>>]

\* a parser that never appends the question in progress on a Q: line
NeverFlush(cq) == FALSE

\* line 80: `if current_question:`, the truth value of a dict
FlushOnQ(cq) == cq.keys # {}

\* a label that keeps everything after the first colon: line.split(':', 1)[1].strip()
CorrectLabelRest(line) == Strip(SliceFrom(line, Find(line, <<":">>)))

\* line 86: line.split(':')[1].strip()
CorrectLabel(line) == Strip(Split(line, <<":">>)[2])

\* One iteration of the loop of lines 77-86 on the raw line `raw`.
\* st = [questions, current, error]; error is "" or the exception raised.
ParseStep(st, raw) ==
    LET line == Strip(raw)
        kind == LineKind(line)
        cq   == st.current
    IN  CASE kind = "Q" ->
                [questions |-> IF FlushOnQ(cq) THEN Append(st.questions, cq)
                               ELSE st.questions,
                 current   |-> NewQuestion(line),
                 error     |-> ""]
          [] kind = "option" ->
                IF "options" \in cq.keys
                THEN [st EXCEPT !.current.options = Append(@, line)]
                ELSE [st EXCEPT !.error = "KeyError"]
          [] kind = "correct" ->
                [st EXCEPT !.current.keys = @ \cup {"correct_answer"},
                           !.current.correct_answer = CorrectLabel(line)]
          [] OTHER -> st

\* an end of input that drops a question without its correct answer
ParseFinishComplete(st) ==
    IF "correct_answer" \in st.current.keys
    THEN Append(st.questions, st.current) ELSE st.questions

\* lines 87-89: the question in progress is appended at the end of the input
ParseFinish(st) ==
    IF st.current.keys # {} THEN Append(st.questions, st.current) ELSE st.questions

RECURSIVE ParseLoop(_, _)
ParseLoop(st, ls) ==
    IF ls = <<>> \/ st.error # "" THEN st
    ELSE ParseLoop(ParseStep(st, Head(ls)), Tail(ls))

\* parse_mcqs(mcqs_text): [error |-> "", questions |-> the list returned], or
\* [error |-> "KeyError", ...] when the call raises
parse_mcqs(txt) ==
    LET st == ParseLoop([questions |-> <<>>, current |-> EmptyDict, error |-> ""],
                        Split(txt, <<NL>>))
    IN  IF st.error # "" THEN [error |-> st.error, questions |-> <<>>]
        ELSE [error |-> "", questions |-> ParseFinish(st)]

\* a value that may be missing: a key of st.session_state, a result
Absent == [has |-> FALSE, val |-> <<>>]
Some(v) == [has |-> TRUE, val |-> v]

\* parse_mcqs is not running
ParseIdle ==
    /\ mcqs_text = <<>>
    /\ known = Absent
    /\ lines = <<>>
    /\ p_questions = <<>>
    /\ current_question = EmptyDict
    /\ p_pc = "idle"

(***************************************************************************)
(* translate_text (app.py 47-52).                                          *)
(* The translation collaborator is opaque: the translation of a chunk is   *)
(* the segment Translated(chunk, language).  A translated text is a        *)
(* sequence of segments; Literal(s) is a segment of untranslated text.     *)
(***************************************************************************)
chunk_size == 500

Translated(chunk, lang) == [lang |-> lang, of |-> chunk]
Literal(s) == [lang |-> "", of |-> s]

\* offsets that always include 0: an empty text gets one empty chunk
ChunkOffsetsFromZero(n) == {0} \cup {i \in 0..(n - 1) : i % chunk_size = 0}

\* range(0, len(text), chunk_size): the 0-based offsets at which chunks start
ChunkOffsets(n) == {i \in 0..(n - 1) : i % chunk_size = 0}

\* a slice that takes one character too many: text[i:i+chunk_size+1]
SliceOverlapping(s, i, j) == SubSeq(s, i + 1, IF j + 1 < Len(s) THEN j + 1 ELSE Len(s))

\* text[i:i+chunk_size], a Python slice: it ends at the end of the text
Slice(s, i, j) == SubSeq(s, i + 1, IF j < Len(s) THEN j ELSE Len(s))

\* line 50: [text[i:i+chunk_size] for i in range(0, len(text), chunk_size)]
Chunks(s) ==
    [k \in 1..Cardinality(ChunkOffsets(Len(s))) |->
        Slice(s, (k - 1) * chunk_size, (k - 1) * chunk_size + chunk_size)]

\* a join without a separator: ''.join(translated_chunks)
JoinNoSeparator(parts) == parts

\* line 52: ' '.join(translated_chunks)
JoinTranslated(parts) ==
    [k \in 1..(IF parts = <<>> THEN 0 ELSE 2 * Len(parts) - 1) |->
        IF k % 2 = 1 THEN parts[(k + 1) \div 2] ELSE Literal(<<" ">>)]

\* a best-effort translate_text: a failing chunk ends the loop, and the chunks
\* translated so far are joined and returned
TranslateBestEffort(s, lang, failAt) ==
    [error |-> "",
     val |-> JoinTranslated(
                [k \in 1..(IF failAt \in 1..Len(Chunks(s)) THEN failAt - 1
                            ELSE Len(Chunks(s))) |-> Translated(Chunks(s)[k], lang)])]

\* translate_text(text, dest_language) when the collaborator fails on chunk
\* number failAt (0: on none): the value returned, or the exception raised
translate_text(s, lang, failAt) ==
    LET cs == Chunks(s)
    IN  IF failAt \in 1..Len(cs)
        THEN [error |-> "TranslationFailure", val |-> <<>>]
        ELSE [error |-> "",
              val |-> JoinTranslated([k \in 1..Len(cs) |-> Translated(cs[k], lang)])]

(***************************************************************************)
(* SpecTranslate: one call of translate_text, one collaborator call at a   *)
(* time.  The texts are all the lengths up to MaxTextLen of a text whose   *)
(* letters repeat with a period that does not divide chunk_size.           *)
(***************************************************************************)
Letters == <<"a", "b", "c", " ", "d", "e", "f">>
TextOfLen(n) == [i \in 1..n |-> Letters[((i - 1) % Len(Letters)) + 1]]

LanguageCodes == {"en", "hi"}

(***************************************************************************)
(* What one script run leaves behind besides st.session_state.             *)
(***************************************************************************)
\* line 154: the default of the slider
DefaultNumQuestions == 10

NoError == [type |-> "", at |-> ""]
Raised(type, at) == [type |-> type, at |-> at]

NoScore == [state |-> "none", outcomes |-> <<>>, correct_count |-> 0,
            total_questions |-> 0, score_percentage |-> 0, feedback |-> ""]

\* failed: the number of the chunk the translation collaborator failed on, 0 if none
NoTranslation == [made |-> FALSE, failed |-> 0]

NoCall == [made |-> FALSE, transcript |-> <<>>, num_questions |-> 0, returned |-> Absent]

NoPage == [generate |-> FALSE, nradios |-> 0, submit |-> FALSE, start |-> FALSE]

\* lines 148-158 on an empty st.session_state: the state of a new session
FreshSession(lang) ==
    [language |-> lang, video_url |-> "", num_questions |-> DefaultNumQuestions,
     submitted |-> FALSE, questions |-> Absent, answers |-> Absent,
     transcript |-> Absent, translated_transcript |-> Absent,
     radio |-> <<>>, page |-> NoPage, error |-> NoError, score |-> NoScore,
     tr_call |-> NoTranslation, gen_call |-> NoCall]

\* the state the model is left in by the run that returns the record r
Becomes(r) ==
    /\ language' = r.language
    /\ video_url' = r.video_url
    /\ num_questions' = r.num_questions
    /\ submitted' = r.submitted
    /\ questions' = r.questions
    /\ answers' = r.answers
    /\ transcript' = r.transcript
    /\ translated_transcript' = r.translated_transcript
    /\ radio' = r.radio
    /\ page' = r.page
    /\ error' = r.error
    /\ score' = r.score
    /\ tr_call' = r.tr_call
    /\ gen_call' = r.gen_call

\* the script is not running
SessionIdle ==
    /\ language = "English"
    /\ video_url = ""
    /\ num_questions = DefaultNumQuestions
    /\ submitted = FALSE
    /\ questions = Absent
    /\ answers = Absent
    /\ transcript = Absent
    /\ translated_transcript = Absent
    /\ radio = <<>>
    /\ page = NoPage
    /\ error = NoError
    /\ score = NoScore
    /\ tr_call = NoTranslation
    /\ gen_call = NoCall

\* translate_text is not running
TranslateIdle ==
    /\ text = <<>>
    /\ dest_language = "en"
    /\ chunks = <<>>
    /\ calls = <<>>
    /\ translated_chunks = <<>>
    /\ t_result = Absent
    /\ t_pc = "idle"

InitTranslate ==
    /\ ParseIdle
    /\ SessionIdle
    /\ \E n \in 0..MaxTextLen : text = TextOfLen(n)
    /\ dest_language \in LanguageCodes
    /\ chunks = <<>>
    /\ calls = <<>>
    /\ translated_chunks = <<>>
    /\ t_result = Absent
    /\ t_pc = "called"

\* line 50: the text is cut into chunks
TranslateSplit ==
    /\ t_pc = "called"
    /\ chunks' = Chunks(text)
    /\ t_pc' = "translating"
    /\ UNCHANGED <<text, dest_language, calls, translated_chunks, t_result>>
    /\ UNCHANGED <<parse_vars, session_vars, run_vars>>

\* line 51: the next chunk is handed to translator.translate
TranslateSubmit ==
    /\ t_pc = "translating"
    /\ Len(calls) = Len(translated_chunks)
    /\ Len(calls) < Len(chunks)
    /\ calls' = Append(calls, chunks[Len(calls) + 1])
    /\ UNCHANGED <<text, dest_language, chunks, translated_chunks, t_result, t_pc>>
    /\ UNCHANGED <<parse_vars, session_vars, run_vars>>

\* translator.translate returns: the translation is appended to the list
TranslateReturn ==
    /\ t_pc = "translating"
    /\ Len(calls) = Len(translated_chunks) + 1
    /\ translated_chunks' =
          Append(translated_chunks, Translated(calls[Len(calls)], dest_language))
    /\ UNCHANGED <<text, dest_language, chunks, calls, t_result, t_pc>>
    /\ UNCHANGED <<parse_vars, session_vars, run_vars>>

\* translator.translate raises: the exception leaves translate_text
TranslateRaise ==
    /\ t_pc = "translating"
    /\ Len(calls) = Len(translated_chunks) + 1
    /\ t_pc' = "TranslationFailure"
    /\ UNCHANGED <<text, dest_language, chunks, calls, translated_chunks, t_result>>
    /\ UNCHANGED <<parse_vars, session_vars, run_vars>>

\* line 52: every chunk is translated, the joined text is returned
TranslateJoin ==
    /\ t_pc = "translating"
    /\ Len(translated_chunks) = Len(chunks)
    /\ t_result' = Some(JoinTranslated(translated_chunks))
    /\ t_pc' = "done"
    /\ UNCHANGED <<text, dest_language, chunks, calls, translated_chunks>>
    /\ UNCHANGED <<parse_vars, session_vars, run_vars>>

NextTranslate ==
    \/ TranslateSplit
    \/ TranslateSubmit
    \/ TranslateReturn
    \/ TranslateRaise
    \/ TranslateJoin

SpecTranslate == InitTranslate /\ [][NextTranslate]_vars

\* the call-by-call machine returns what the operator translate_text returns
TranslateAgrees ==
    t_pc = "done" => t_result.val = translate_text(text, dest_language, 0).val


(***************************************************************************)
(* The inputs of SpecParse: raw texts of up to MaxLines lines drawn from   *)
(* LineVocab, and texts formatted from known questions per the grammar of  *)
(* the prompt (app.py 60-65).                                              *)
(***************************************************************************)
SeqsUpTo(S, n) == UNION {[1..k -> S] : k \in 0..n}

LineVocab ==
    { <<"Q", ":", " ", "x">>,                           \* a question line
      <<" ", "Q", ":", "y", " ">>,                      \* one with surrounding blanks
      <<"A", ")", " ", "a">>,                           \* option lines
      <<"B", ")", " ", "b">>,
      CorrectAnswerPrefix \o <<" ", "A">>,              \* Correct Answer: A
      CorrectAnswerPrefix \o <<" ", "B", ":", " ", "a">>,  \* Correct Answer: B: a
      <<" ">>,                                          \* a blank line
      <<"n", "o", "t", "e">> }                          \* stray prose

RawTexts == {Join(ls, <<NL>>) : ls \in SeqsUpTo(LineVocab, MaxLines)}

\* Questions as the spec's data model has them: text, four labelled options, a label
OptionsA == << <<"A", ")", " ", "a">>, <<"B", ")", " ", "b">>,
               <<"C", ")", " ", "c">>, <<"D", ")", " ", "d">> >>
OptionsB == << <<"A", ")", " ", "b">>, <<"B", ")", " ", "a">>,
               <<"C", ")", " ", "d", " ", "e">>, <<"D", ")", " ", "c">> >>

KnownPool ==
    { [text |-> <<"x">>, options |-> OptionsA, correct_label |-> <<"A">>],
      [text |-> <<"y", " ", "z">>, options |-> OptionsB, correct_label |-> <<"C">>],
      [text |-> <<" ", "x">>, options |-> OptionsA, correct_label |-> <<"D">>] }

KnownSeqs == SeqsUpTo(KnownPool, MaxKnown)

\* the six lines of one question, as the prompt asks for them, and a blank line
FormatQuestion(q) ==
    << <<"Q", ":", " ">> \o q.text,
       q.options[1], q.options[2], q.options[3], q.options[4],
       CorrectAnswerPrefix \o <<" ">> \o q.correct_label,
       <<>> >>

RECURSIVE FormatLines(_)
FormatLines(qs) ==
    IF qs = <<>> THEN <<>> ELSE FormatQuestion(Head(qs)) \o FormatLines(Tail(qs))

Format(qs) == Join(FormatLines(qs), <<NL>>)

\* a parsed dict read as a Question; a missing key reads as "missing"
AsQuestion(d) ==
    [text |-> d.question, options |-> d.options, correct_label |-> d.correct_answer]

ParseInputs ==
    {[text |-> t, known |-> Absent] : t \in RawTexts}
    \cup {[text |-> Format(qs), known |-> Some(qs)] : qs \in KnownSeqs}

InitParse ==
    /\ TranslateIdle
    /\ SessionIdle
    /\ \E src \in ParseInputs : mcqs_text = src.text /\ known = src.known
    /\ lines = Split(mcqs_text, <<NL>>)
    /\ p_questions = <<>>
    /\ current_question = EmptyDict
    /\ p_pc = "loop"

\* one iteration of the loop of parse_mcqs on a line of the given kind
ParseLine(kind) ==
    /\ p_pc = "loop"
    /\ lines # <<>>
    /\ LineKind(Strip(Head(lines))) = kind
    /\ LET st == ParseStep([questions |-> p_questions, current |-> current_question,
                            error |-> ""], Head(lines))
       IN  /\ p_questions' = st.questions
           /\ current_question' = st.current
           /\ p_pc' = IF st.error # "" THEN st.error ELSE "loop"
    /\ lines' = Tail(lines)
    /\ UNCHANGED <<mcqs_text, known, translate_vars, session_vars, run_vars>>

ParseQuestionLine == ParseLine("Q")
ParseOptionLine == ParseLine("option")
ParseCorrectAnswerLine == ParseLine("correct")
ParseOtherLine == ParseLine("other")

\* lines 87-89: the end of the input
ParseEnd ==
    /\ p_pc = "loop"
    /\ lines = <<>>
    /\ p_questions' = ParseFinish([questions |-> p_questions,
                                   current |-> current_question, error |-> ""])
    /\ p_pc' = "done"
    /\ UNCHANGED <<mcqs_text, known, lines, current_question, translate_vars, session_vars, run_vars>>

NextParse ==
    \/ ParseQuestionLine
    \/ ParseOptionLine
    \/ ParseCorrectAnswerLine
    \/ ParseOtherLine
    \/ ParseEnd

SpecParse == InitParse /\ [][NextParse]_vars

\* the line-by-line machine ends where the pure operator does
ParseAgrees ==
    /\ p_pc = "done" => parse_mcqs(mcqs_text) = [error |-> "", questions |-> p_questions]
    /\ p_pc = "KeyError" => parse_mcqs(mcqs_text).error = "KeyError"

(***************************************************************************)
(* The collaborators of the script.                                        *)
(* st.session_state holds the texts by name, not spelled out: a transcript *)
(* is named by the video it is the transcript of, and a translated         *)
(* transcript by the transcript and the language code translate_text was   *)
(* called with.  TranscriptText and TranslatedText spell them out.         *)
(***************************************************************************)
Languages == {"English", "Hindi"}

\* line 162
LanguageCode(lang) == IF lang = "English" THEN "en" ELSE "hi"

UrlGood == "https://youtu.be/aaaaaaaaaaa"
UrlBad == "not a video url"
Urls == {"", UrlGood, UrlBad}

\* lines 9-18: the video id of a URL one of the two patterns matches, else None
extract_video_id(url) == IF url = UrlGood THEN "aaaaaaaaaaa" ELSE "None"

\* the transcript YouTube holds for the video: a text of two chunks
VideoTranscript(id) ==
    IF id = "aaaaaaaaaaa" THEN Some(TextOfLen(chunk_size + 1)) ELSE Absent

\* lines 20-45: the formatted transcript, or None
download_youtube_transcript(url) ==
    LET id == extract_video_id(url)
    IN  IF id = "None" THEN Absent ELSE VideoTranscript(id)

\* the text of the transcript named id
TranscriptText(id) == VideoTranscript(id).val

\* the text a translated transcript names
TranslatedText(name) == translate_text(TranscriptText(name.of), name.lang, 0).val

\* the values the slider of line 181 is moved to
SliderValues == {5, DefaultNumQuestions}

(***************************************************************************)
(* The texts the generation collaborator returns: well-formed quizzes of   *)
(* up to MaxQuestions questions, a quiz of three questions, and texts that *)
(* break the grammar of the prompt in one place each.                      *)
(***************************************************************************)
Question1 == [text |-> <<"x">>, options |-> OptionsA, correct_label |-> <<"A">>]
Question2 == [text |-> <<"y", " ", "z">>, options |-> OptionsB, correct_label |-> <<"C">>]

\* n questions, Question1 and Question2 in turn, beginning with the first or second
Quiz(n, first) ==
    List([i \in 1..n |-> IF (i + first) % 2 = 0 THEN Question1 ELSE Question2])

\* the quiz of section 8 of the specification: three questions
ExampleQuiz == Quiz(3, 1)

WellFormedTexts ==
    {Format(Quiz(n, 1)) : n \in 1..MaxQuestions}
    \cup {Format(Quiz(1, 2)), Format(ExampleQuiz)}

QLine == <<"Q", ":", " ", "x">>
CorrectLine(label) == CorrectAnswerPrefix \o <<" ">> \o label
TextOf(ls) == Join(ls, <<NL>>)

\* no line begins with Q:
ProseText == TextOf(<< <<"n", "o", "t", "e">> >>)
\* no line begins with Q:, one with Correct Answer:
OnlyCorrectText == TextOf(<< CorrectLine(<<"A">>) >>)
\* an option line before the first question
OptionFirstText == TextOf(<< OptionsA[1], QLine >>)
\* a question without its Correct Answer line
NoCorrectText == TextOf(<< QLine >> \o OptionsA)
\* an option line with nothing after its marker
NoDisplayText == TextOf(<< QLine, <<"A", ")">>, OptionsA[2], CorrectLine(<<"B">>) >>)
\* the same after a well-formed question
SecondBadText == TextOf(FormatQuestion(Question1) \o
                        << QLine, <<"A", ")">>, OptionsA[2], CorrectLine(<<"B">>) >>)
\* a label no option carries
BadLabelText == TextOf(<< QLine >> \o OptionsA \o << CorrectLine(<<"E">>) >>)
\* an empty label
EmptyLabelText == TextOf(<< QLine >> \o OptionsA \o << CorrectAnswerPrefix >>)
\* three options, and the label of the fourth
ThreeOptionsText ==
    TextOf(<< QLine, OptionsA[1], OptionsA[2], OptionsA[3], CorrectLine(<<"D">>) >>)
\* an option whose text begins with ") ": its display text is empty
EmptyDisplayText ==
    TextOf(<< QLine, <<"A", ")", " ", ")", " ", "b">>, OptionsA[2], CorrectLine(<<"A">>) >>)

MalformedTexts ==
    {ProseText, OnlyCorrectText, OptionFirstText, NoCorrectText, NoDisplayText,
     SecondBadText, BadLabelText, EmptyLabelText, ThreeOptionsText, EmptyDisplayText}

GenTexts == WellFormedTexts \cup MalformedTexts

\* client.predict returns a text (line 71), or raises
GenOutcomes == {Some(t) : t \in GenTexts} \cup {Absent}

\* line 186 on each of the texts
ParsedGen == [t \in GenTexts |-> parse_mcqs(t)] @@ <<>>

(***************************************************************************)
(* display_mcqs (app.py 98-142).                                           *)
(***************************************************************************)
\* None and '' are the two falsy answers; a selected option is its display text
NoneAnswer == Absent
Truthy(a) == a.has /\ a.val # <<>>

OptionSep == <<")", " ">>

\* line 102: opt.split(') ')[1] is there
HasDisplay(opt) == Len(Split(opt, OptionSep)) >= 2
Display(opt) == Split(opt, OptionSep)[2]

\* line 102: [opt.split(') ')[1] for opt in q['options']]
DisplayOptions(q) == List([k \in 1..Len(q.options) |-> Display(q.options[k])])

\* the exception iteration i of the loop of lines 100-104 raises, "" if none
DisplayError(q, i, ans) ==
    IF "question" \notin q.keys \/ "options" \notin q.keys THEN "KeyError"
    ELSE IF \E k \in 1..Len(q.options) : ~HasDisplay(q.options[k]) THEN "IndexError"
    ELSE IF ~ans.has THEN "KeyError"
    ELSE IF i > Len(ans.val) THEN "IndexError"
    ELSE ""

\* the first iteration that raises, 0 if none does
FirstDisplayError(qs, ans) ==
    LET bad == {i \in 1..Len(qs) : DisplayError(qs[i], i, ans) # ""}
    IN  IF bad = {} THEN 0 ELSE Min(bad)

\* line 103: the value of the radio q{i-1}.  A click sets it; otherwise the
\* widget keeps its value while its key and options are those of the last
\* run, and a new widget holds None (index=None).
RadioValue(i, opts, kind, a) ==
    IF kind = "select" /\ a.idx = i THEN a.choice
    ELSE IF i <= Len(radio) /\ radio[i].opts = opts THEN radio[i].val
    ELSE NoneAnswer

\* a flag that st.session_state does not keep: submitted = st.button(...)
SubmittedOnlyWhenClicked(clicked, before) == clicked

\* line 107: the flag is set by the click and kept by st.session_state
SubmittedAfter(clicked, before) == clicked \/ before

\* a score block that is not guarded by the flag
ScoreAlways(flag) == TRUE

\* line 109: the score is computed when the flag is set
ScoreShown(flag) == flag

\* line 117: next(opt for opt in q['options'] if opt.startswith(correct_option)),
\* line 118: its display text
ResolveCorrect(q) ==
    LET hits == {k \in 1..Len(q.options) : StartsWith(q.options[k], q.correct_answer)}
    IN  IF hits = {} THEN Absent ELSE Some(Display(q.options[Min(hits)]))

\* lines 116-128: what is shown for one question
QuestionOutcome(q, selected) ==
    LET correct == ResolveCorrect(q)
    IN  IF ~correct.has THEN "error"
        ELSE IF Truthy(selected)
             THEN (IF selected.val = correct.val THEN "correct" ELSE "wrong")
             ELSE "unanswered"

\* lines 110 and 122: correct_count, counted question by question
RECURSIVE CountCorrect(_)
CountCorrect(outcomes) ==
    IF outcomes = <<>> THEN 0
    ELSE (IF Head(outcomes) = "correct" THEN 1 ELSE 0) + CountCorrect(Tail(outcomes))

\* line 113: the first question without a 'correct_answer' key, 0 if none
FirstScoreError(qs) ==
    LET bad == {i \in 1..Len(qs) : "correct_answer" \notin qs[i].keys}
    IN  IF bad = {} THEN 0 ELSE Min(bad)

\* lines 130-138: the score of a session of n >= 1 questions; the percentage
\* in hundredths, as "{:.2f}" rounds it
Scored(outcomes) ==
    LET n == Len(outcomes)
        c == CountCorrect(outcomes)
    IN  [state |-> "shown", outcomes |-> outcomes, correct_count |-> c,
         total_questions |-> n,
         score_percentage |-> (2 * 10000 * c + n) \div (2 * n),
         feedback |-> IF 100 * c >= 80 * n THEN "success"
                      ELSE IF 100 * c >= 60 * n THEN "info" ELSE "warning"]

(***************************************************************************)
(* One run of the script (app.py 144-192) on the event `kind` with the     *)
(* inputs a = [lang, url, num, idx, choice, fail, gen]: the values of the  *)
(* widgets the event changes, the chunk the translation collaborator fails *)
(* on (0: none) and what the generation collaborator returns.              *)
(***************************************************************************)
\* line 161: the language radio
LanguageAfter(kind, a) == IF kind = "language" THEN a.lang ELSE language

\* line 165: the URL input
UrlAfter(kind, a) == IF kind = "url" THEN a.url ELSE video_url

\* lines 167-171: the transcript is fetched when none is stored
TranscriptAfter(url1) ==
    IF url1 # "" /\ ~transcript.has /\ Truthy(download_youtube_transcript(url1))
    THEN Some(extract_video_id(url1))
    ELSE transcript

\* line 173: the transcript is translated when no translation is stored
Translates(url1, tr1) == url1 # "" /\ ~translated_transcript.has /\ tr1.has

\* lines 174-176, given what translate_text does
TranslatedAfter(lang1, tr1, fail, res) ==
    [tr_call |-> [made |-> TRUE, failed |-> fail],
     translated_transcript |->
        IF res.error = "" THEN Some([of |-> tr1.val, lang |-> LanguageCode(lang1)])
        ELSE translated_transcript,
     error |-> IF res.error = "" THEN NoError ELSE Raised(res.error, "translate_text")]

Fetching(lang1, url1, tr1, fail) ==
    [language |-> lang1, video_url |-> url1, transcript |-> tr1]
    @@ IF Translates(url1, tr1)
       THEN TranslatedAfter(lang1, tr1, fail,
               translate_text(TranscriptText(tr1.val), LanguageCode(lang1), fail))
       ELSE [tr_call |-> NoTranslation, translated_transcript |-> translated_transcript,
             error |-> NoError]

\* lines 161-176: the language, the URL, the transcript and its translation
Fetched(kind, a) ==
    Fetching(LanguageAfter(kind, a), UrlAfter(kind, a),
             TranscriptAfter(UrlAfter(kind, a)), a.fail)

\* line 178: the slider and the Generate MCQs button are reached
Reaches(f) == f.error = NoError /\ f.video_url # "" /\ f.translated_transcript.has

\* line 181: the slider
NumAfter(kind, a, f) == IF Reaches(f) /\ kind = "slider" THEN a.num ELSE num_questions

\* line 185: the call of generate_mcqs
GenCall(a, f, num1) ==
    [made |-> TRUE, transcript |-> f.translated_transcript.val,
     num_questions |-> num1, returned |-> a.gen]

\* a handler that stores the questions and leaves the old answers list
StoredKeepingAnswers(parsed) ==
    [error |-> NoError, questions |-> Some(parsed.questions), answers |-> answers,
     submitted |-> FALSE]

\* lines 186-189: the parsed questions are stored, all answers '', not submitted
Stored(parsed) ==
    [error |-> NoError, questions |-> Some(parsed.questions),
     answers |-> Some(List([i \in 1..Len(parsed.questions) |-> Some(<<>>)])),
     submitted |-> FALSE]

\* a handler that empties the stored list before it calls generate_mcqs
NotStoredEmptied(type, at) ==
    [error |-> Raised(type, at), questions |-> Some(<<>>), answers |-> answers,
     submitted |-> submitted]

\* what an exception in lines 185-186 leaves
NotStored(type, at) ==
    [error |-> Raised(type, at), questions |-> questions, answers |-> answers,
     submitted |-> submitted]

\* lines 183-189: the click on Generate MCQs
Clicked(a, f, num1) ==
    [reach |-> TRUE, num_questions |-> num1, gen_call |-> GenCall(a, f, num1)]
    @@ IF ~a.gen.has THEN NotStored("GenerationFailure", "generate_mcqs")
       ELSE IF ParsedGen[a.gen.val].error # ""
            THEN NotStored(ParsedGen[a.gen.val].error, "parse_mcqs")
            ELSE Stored(ParsedGen[a.gen.val])

\* lines 178-189
Generated(kind, a, f) ==
    IF Reaches(f) /\ kind = "generate"
    THEN Clicked(a, f, NumAfter(kind, a, f))
    ELSE [reach |-> Reaches(f), num_questions |-> NumAfter(kind, a, f),
          gen_call |-> NoCall, error |-> f.error, questions |-> questions,
          answers |-> answers, submitted |-> submitted]

\* a guard that only tests that a list is stored: `is not None`
ShowsAnyList(g) == g.error = NoError /\ g.questions.has

\* lines 191 and 99: display_mcqs is called, and displays, when the list is truthy
Shows(g) == g.error = NoError /\ g.questions.has /\ g.questions.val # <<>>

\* the quiz is not displayed: no radio, no Submit Answers, no Start Again
NotDisplayed(g) ==
    [answers |-> g.answers, submitted |-> g.submitted, error |-> g.error,
     score |-> NoScore, radio |-> <<>>,
     page |-> [NoPage EXCEPT !.generate = g.reach]]

\* lines 100-103: the radios of the questions before the first that raises
Widgets(qs, bad, kind, a) ==
    List([i \in 1..(IF bad = 0 THEN Len(qs) ELSE bad - 1) |->
            [opts |-> DisplayOptions(qs[i]),
             val |-> RadioValue(i, DisplayOptions(qs[i]), kind, a)]])

\* line 104: answers[i] = answer for the radios rendered
AnswersAfter(old, widget) ==
    IF ~old.has THEN old
    ELSE Some(List([i \in 1..Len(old.val) |->
                       IF i <= Len(widget) THEN widget[i].val ELSE old.val[i]]))

\* an exception in iteration `bad` of the loop of lines 100-104
DisplayAborted(g, bad, widget) ==
    [answers |-> AnswersAfter(g.answers, widget), submitted |-> g.submitted,
     error |-> Raised(DisplayError(g.questions.val[bad], bad, g.answers), "display_mcqs"),
     score |-> NoScore, radio |-> widget,
     page |-> [generate |-> g.reach, nradios |-> Len(widget), submit |-> FALSE,
               start |-> FALSE]]

\* lines 111-128: the outcomes of the questions before the first that raises
Outcomes(qs, ans, sbad) ==
    List([i \in 1..(IF sbad = 0 THEN Len(qs) ELSE sbad - 1) |->
            QuestionOutcome(qs[i], ans.val[i])])

\* lines 109-138
ScoreAfter(flag, outcomes, sbad) ==
    IF ~ScoreShown(flag) THEN [error |-> NoError, score |-> NoScore]
    ELSE IF sbad # 0
         THEN [error |-> Raised("KeyError", "score"),
               score |-> [NoScore EXCEPT !.state = "partial", !.outcomes = outcomes]]
         ELSE IF outcomes = <<>>
              THEN [error |-> Raised("ZeroDivisionError", "score"),
                    score |-> [NoScore EXCEPT !.state = "partial"]]
              ELSE [error |-> NoError, score |-> Scored(outcomes)]

\* lines 106-140 after the loop of lines 100-104 ended
DisplayedWhole(g, widget, ans, flag, sc) ==
    [answers |-> ans, submitted |-> flag, radio |-> widget,
     page |-> [generate |-> g.reach, nradios |-> Len(widget), submit |-> TRUE,
               start |-> sc.error = NoError]]
    @@ sc

DisplayedQuiz(kind, g, bad, widget) ==
    IF bad # 0 THEN DisplayAborted(g, bad, widget)
    ELSE DisplayedWhole(g, widget, AnswersAfter(g.answers, widget),
            SubmittedAfter(kind = "submit", g.submitted),
            ScoreAfter(SubmittedAfter(kind = "submit", g.submitted),
                       Outcomes(g.questions.val, AnswersAfter(g.answers, widget),
                                FirstScoreError(g.questions.val)),
                       FirstScoreError(g.questions.val)))

\* lines 191-192 and display_mcqs up to the Start Again button
Displayed(kind, a, g) ==
    IF ~Shows(g) THEN NotDisplayed(g)
    ELSE DisplayedQuiz(kind, g, FirstDisplayError(g.questions.val, g.answers),
            Widgets(g.questions.val, FirstDisplayError(g.questions.val, g.answers),
                    kind, a))

\* lines 140-142: a click on Start Again resets the state and runs the script
\* again, on a session that holds the language only
Finished(kind, f, g, d) ==
    IF kind = "start" /\ d.page.start
    THEN FreshSession(f.language)
    ELSE [language |-> f.language, video_url |-> f.video_url,
          num_questions |-> g.num_questions, submitted |-> d.submitted,
          questions |-> g.questions, answers |-> d.answers,
          transcript |-> f.transcript,
          translated_transcript |-> f.translated_transcript,
          radio |-> d.radio, page |-> d.page, error |-> d.error,
          score |-> d.score, tr_call |-> f.tr_call, gen_call |-> g.gen_call]

Fetch(kind, a, f) == Finished(kind, f, Generated(kind, a, f),
                              Displayed(kind, a, Generated(kind, a, f)))

\* the whole run
Script(kind, a) == Fetch(kind, a, Fetched(kind, a))

\* the inputs of a run that changes no widget
NoInput ==
    [lang |-> language, url |-> video_url, num |-> num_questions, idx |-> 0,
     choice |-> NoneAnswer, fail |-> 0, gen |-> Absent]

\* the chunks the translation collaborator may fail on in a run (0: none)
FailChoices(kind, a) ==
    IF Translates(UrlAfter(kind, a), TranscriptAfter(UrlAfter(kind, a)))
    THEN 0..Len(Chunks(TranscriptText(TranscriptAfter(UrlAfter(kind, a)).val)))
    ELSE {0}

Run(kind, a) ==
    /\ \E k \in FailChoices(kind, a) :
          \E r \in {Script(kind, [a EXCEPT !.fail = k])} : Becomes(r)
    /\ UNCHANGED <<parse_vars, translate_vars>>

Init ==
    /\ ParseIdle
    /\ TranslateIdle
    /\ SessionIdle

\* line 161: the user picks the other language
ChangeLanguage ==
    \E l \in Languages \ {language} : Run("language", [NoInput EXCEPT !.lang = l])

\* line 165: the user enters another URL
ChangeUrl ==
    \E u \in Urls \ {video_url} : Run("url", [NoInput EXCEPT !.url = u])

\* line 181: the user moves the slider
MoveSlider ==
    /\ page.generate
    /\ \E n \in SliderValues \ {num_questions} : Run("slider", [NoInput EXCEPT !.num = n])

\* line 183: the user clicks Generate MCQs
ClickGenerate ==
    /\ page.generate
    /\ \E g \in GenOutcomes : Run("generate", [NoInput EXCEPT !.gen = g])

\* line 103: the user picks an option of one of the radios on the page
SelectAnswer ==
    \E i \in 1..page.nradios :
        \E k \in 1..Len(radio[i].opts) :
            /\ radio[i].val # Some(radio[i].opts[k])
            /\ Run("select", [NoInput EXCEPT !.idx = i, !.choice = Some(radio[i].opts[k])])

\* line 106: the user clicks Submit Answers
ClickSubmit ==
    /\ page.submit
    /\ Run("submit", NoInput)

\* line 140: the user clicks Start Again
ClickStartAgain ==
    /\ page.start
    /\ Run("start", NoInput)

Next ==
    \/ ChangeLanguage
    \/ ChangeUrl
    \/ MoveSlider
    \/ ClickGenerate
    \/ SelectAnswer
    \/ ClickSubmit
    \/ ClickStartAgain

Spec == Init /\ [][Next]_vars

(***************************************************************************)
(* Properties of the scoring and of the session (Spec).                    *)
(***************************************************************************)
\* the label of an option line: what stands before its first ")"
LabelOf(opt) == Split(opt, <<")">>)[1]

\* the options of q that carry its correct label
Labelled(q) == {k \in 1..Len(q.options) : LabelOf(q.options[k]) = q.correct_answer}

\* q has a question text, options and a correct label that one option carries
Resolvable(q) ==
    /\ {"question", "options", "correct_answer"} \subseteq q.keys
    /\ Labelled(q) # {}

\* the outcome of q when the radio returned sel (None: nothing was selected)
ExpectedOutcome(q, sel) ==
    IF ~sel.has THEN "unanswered"
    ELSE IF sel.val = Display(q.options[Min(Labelled(q))]) THEN "correct"
    ELSE "wrong"

AllResolvable == \A i \in 1..Len(questions.val) : Resolvable(questions.val[i])

ScoreAsExpected ==
    /\ Len(score.outcomes) = Len(questions.val)
    /\ \A i \in 1..Len(questions.val) :
          score.outcomes[i] = ExpectedOutcome(questions.val[i], answers.val[i])
    /\ score.correct_count =
          Cardinality({i \in 1..Len(questions.val) :
                          ExpectedOutcome(questions.val[i], answers.val[i]) = "correct"})
    /\ score.total_questions = Len(questions.val)

\* C1: in a submitted session whose questions all have a resolvable correct
\* label, each question is scored 'correct' when the selected text is the
\* display text of the option with the correct label, 'wrong' when another
\* text was selected and 'unanswered' when nothing was selected; correct_count
\* counts the 'correct' questions and total_questions all questions.
C1_ThreeOutcomes ==
    (score.state = "shown" /\ AllResolvable) => ScoreAsExpected

\* C2: once the session is submitted, no stored answer changes in a later
\* run on the same quiz.
C2_AnswersFrozen ==
    [][(submitted /\ submitted' /\ ~gen_call'.made /\ questions' = questions)
          => answers' = answers]_vars

\* a new session replaced the old one in the step: Generate MCQs stored new
\* questions, or Start Again reset the state
NewSession ==
    \/ /\ gen_call'.made
       /\ gen_call'.returned.has
       /\ ParsedGen[gen_call'.returned.val].error = ""
       /\ questions' = Some(ParsedGen[gen_call'.returned.val].questions)
    \/ /\ questions' = Absent
       /\ answers' = Absent
       /\ video_url' = ""

\* C3: submitted never becomes false again, except in a step in which a new
\* session replaces the submitted one.
C3_SubmitIrreversible ==
    [][(submitted /\ ~submitted') => NewSession]_vars

\* a submitted session with its score, in a run after the URL was cleared
C3_Witness ==
    /\ submitted
    /\ questions.has
    /\ score.state = "shown"
    /\ video_url = ""

\* C4: while submitted is false no score is computed or shown, wholly or in part.
C4_ScoreOnlyWhenSubmitted ==
    ~submitted => (score = NoScore /\ error.at # "score")

\* a displayed quiz with a selected answer, not submitted, without a score
C4_Witness ==
    /\ ~submitted
    /\ page.submit
    /\ \E i \in 1..Len(answers.val) : Truthy(answers.val[i])
    /\ score = NoScore

(***************************************************************************)
(* Properties of the parser (SpecParse).                                   *)
(***************************************************************************)
Trimmed(s) == Strip(s) = s

\* the question text and the option lines of q carry no surrounding whitespace
TrimmedQuestion(q) ==
    /\ Trimmed(q.text)
    /\ \A k \in 1..Len(q.options) : Trimmed(q.options[k])
    /\ Trimmed(q.correct_label)

\* the parsed dicts are the known questions, in order
Reproduced ==
    /\ Len(p_questions) = Len(known.val)
    /\ \A i \in 1..Len(known.val) :
          /\ p_questions[i].keys = {"question", "options", "correct_answer"}
          /\ AsQuestion(p_questions[i]) = known.val[i]

\* C5 as stated: every sequence of questions formatted per the grammar is
\* parsed back to the same questions, in order, each with its text, its
\* option lines and its correct label reproduced exactly.
C5_RoundTrip ==
    (p_pc = "done" /\ known.has) => Reproduced

\* C5, amended: every sequence of questions whose texts, option lines and
\* labels carry no leading or trailing whitespace is parsed back exactly.
C5_RoundTripTrimmed ==
    (/\ p_pc = "done"
     /\ known.has
     /\ \A i \in 1..Len(known.val) : TrimmedQuestion(known.val[i]))
    => Reproduced

\* two different trimmed questions were formatted and parsed
C5_Witness ==
    /\ p_pc = "done"
    /\ known.has
    /\ Len(known.val) = 2
    /\ known.val[1] # known.val[2]
    /\ \A i \in 1..2 : TrimmedQuestion(known.val[i])
    /\ Len(p_questions) = 2

(***************************************************************************)
(* Properties of malformed generations (Spec).                             *)
(***************************************************************************)
\* q lacks its text, one of its four options, the display text of an option
\* or its correct label
Malformed(q) ==
    \/ ~({"question", "options", "correct_answer"} \subseteq q.keys)
    \/ Len(q.options) # 4
    \/ \E k \in 1..Len(q.options) : ~HasDisplay(q.options[k])

\* C6: a stored question that is malformed never makes presenting or scoring
\* the session fail.
C6_MalformedNeverFails ==
    (questions.has /\ \E i \in 1..Len(questions.val) : Malformed(questions.val[i]))
    => error.at \notin {"display_mcqs", "score"}

\* no line of the text begins with Q:
NoQLine(t) ==
    \A k \in 1..Len(Split(t, <<NL>>)) :
        ~StartsWith(Strip(Split(t, <<NL>>)[k]), QPrefix)

\* C7: when the generated text has no line beginning with Q:, the run fails
\* with EmptyResultError, the parsed list is not stored and nothing is
\* presented or scored.
C7_EmptyResultError ==
    (gen_call.made /\ gen_call.returned.has /\ NoQLine(gen_call.returned.val))
    => /\ error.type = "EmptyResultError"
       /\ questions # Some(ParsedGen[gen_call.returned.val].questions)
       /\ page.nradios = 0
       /\ score = NoScore

(***************************************************************************)
(* Properties of translate_text (SpecTranslate).                           *)
(***************************************************************************)
RECURSIVE Concat(_)
Concat(ss) == IF ss = <<>> THEN <<>> ELSE Head(ss) \o Concat(Tail(ss))

\* C8: the chunks are consecutive pieces of the text of at most chunk_size
\* characters, in order, without overlap or gap, only the last one possibly
\* shorter, and their concatenation is the text.
C8_Chunking ==
    t_pc # "called" =>
        /\ \A k \in 1..Len(chunks) :
              /\ Len(chunks[k]) >= 1
              /\ Len(chunks[k]) <= chunk_size
              /\ k < Len(chunks) => Len(chunks[k]) = chunk_size
              /\ \A j \in 1..Len(chunks[k]) :
                    chunks[k][j] = text[(k - 1) * chunk_size + j]
        /\ Concat(chunks) = text

\* a text of two full chunks and a last chunk of one character
C8_Witness ==
    /\ t_pc = "translating"
    /\ Len(text) = 2 * chunk_size + 1
    /\ Len(chunks) = 3
    /\ Len(chunks[3]) = 1

\* C9: the chunks are handed to the collaborator one at a time, in index
\* order, each once, and the result is their translations in index order,
\* joined by single spaces.
C9_SequentialInOrder ==
    /\ Len(calls) <= Len(chunks)
    /\ \A k \in 1..Len(calls) : calls[k] = chunks[k]
    /\ Len(translated_chunks) <= Len(calls)
    /\ Len(calls) <= Len(translated_chunks) + 1
    /\ \A k \in 1..Len(translated_chunks) :
          translated_chunks[k] = Translated(chunks[k], dest_language)
    /\ t_pc = "done" =>
          /\ Len(calls) = Len(chunks)
          /\ t_result.has
          /\ Len(t_result.val) = (IF chunks = <<>> THEN 0 ELSE 2 * Len(chunks) - 1)
          /\ \A k \in 1..Len(chunks) :
                t_result.val[2 * k - 1] = Translated(chunks[k], dest_language)
          /\ \A k \in 1..(Len(chunks) - 1) : t_result.val[2 * k] = Literal(<<" ">>)

\* a text of three chunks was translated
C9_Witness ==
    /\ t_pc = "done"
    /\ Len(chunks) = 3
    /\ Len(calls) = 3
    /\ Len(t_result.val) = 5

(***************************************************************************)
(* Translation failures in the script (Spec).                              *)
(***************************************************************************)
\* C10: in a run in which the collaborator fails on a chunk, translate_text
\* raises, no translated transcript is stored and generate_mcqs is not called.
C10_TranslationFailFast ==
    tr_call.failed # 0 =>
        /\ error.type = "TranslationFailure"
        /\ ~translated_transcript.has
        /\ ~gen_call.made
        /\ ~page.generate

\* the collaborator failed on the second chunk, after translating the first
C10_Witness ==
    /\ tr_call.made
    /\ tr_call.failed = 2
    /\ transcript.has

(***************************************************************************)
(* Zero-question sessions (Spec).                                          *)
(***************************************************************************)
\* C11: the percentage is never computed with total_questions = 0: a shown
\* score has at least one question, no run ends in a division by zero, and a
\* stored empty question list is neither presented nor scored.
C11_NoDivisionByZero ==
    /\ error.type # "ZeroDivisionError"
    /\ score.state = "shown" => score.total_questions >= 1
    /\ (questions.has /\ questions.val = <<>>) =>
          (score = NoScore /\ page.nradios = 0 /\ ~page.submit)

\* Generate MCQs stored an empty question list, and the run ended without error
C11_Witness ==
    /\ gen_call.made
    /\ questions.has
    /\ questions.val = <<>>
    /\ error = NoError

(***************************************************************************)
(* The parser, transition by transition (SpecParse).                       *)
(***************************************************************************)
\* C12: when the input ends while a question is in progress, that question is
\* appended to the output whatever fields it lacks; when none is in progress
\* the output is left as it is.
C12_TrailingQuestionAppended ==
    [][(p_pc = "loop" /\ p_pc' = "done") =>
          p_questions' = (IF current_question.keys # {}
                          THEN Append(p_questions, current_question)
                          ELSE p_questions)]_vars

\* the input ended on a question with options and no Correct Answer line,
\* and that question is the last of the output
C12_Witness ==
    /\ p_pc = "done"
    /\ "options" \in current_question.keys
    /\ current_question.options # <<>>
    /\ "correct_answer" \notin current_question.keys
    /\ p_questions # <<>>
    /\ p_questions[Len(p_questions)] = current_question

(***************************************************************************)
(* The empty text (SpecTranslate).                                         *)
(***************************************************************************)
\* C13: translating the empty text makes no call of the translation
\* collaborator, cannot fail, and returns the empty text.
C13_EmptyText ==
    (text = <<>> /\ t_pc # "called") =>
        /\ chunks = <<>>
        /\ calls = <<>>
        /\ t_pc # "TranslationFailure"
        /\ t_pc = "done" => t_result = Some(<<>>)

\* translate_text returned for the empty text
C13_Witness ==
    /\ text = <<>>
    /\ t_pc = "done"
    /\ t_result = Some(<<>>)
    /\ calls = <<>>

\* the step reads a line beginning with Q:
ReadsQLine ==
    /\ p_pc = "loop"
    /\ lines # <<>>
    /\ StartsWith(Strip(Head(lines)), QPrefix)
    /\ lines' = Tail(lines)

\* C14: on a line beginning with Q: the question in progress is appended to
\* the output exactly when it already has a correct label, and a new question
\* is started whose text is the trimmed remainder of the line.
C14_FlushWhenLabelled ==
    [][ReadsQLine =>
          /\ p_questions' = (IF "correct_answer" \in current_question.keys
                             THEN Append(p_questions, current_question)
                             ELSE p_questions)
          /\ current_question'.keys = {"question", "options"}
          /\ current_question'.question = Strip(SliceFrom(Strip(Head(lines)), 2))
          /\ current_question'.options = <<>>]_vars

(***************************************************************************)
(* Unresolvable correct labels (Spec).                                     *)
(***************************************************************************)
\* C15: in a shown score, a question none of whose options carries its
\* correct label (an empty label included) is reported as an error item, and
\* total_questions still counts it.
C15_UnresolvableIsError ==
    score.state = "shown" =>
        /\ score.total_questions = Len(questions.val)
        /\ \A i \in 1..Len(questions.val) :
              Labelled(questions.val[i]) = {} => score.outcomes[i] = "error"

(***************************************************************************)
(* The Correct Answer line (SpecParse).                                    *)
(***************************************************************************)
\* the step reads a line beginning with Correct Answer:
ReadsCorrectLine ==
    /\ p_pc = "loop"
    /\ lines # <<>>
    /\ StartsWith(Strip(Head(lines)), CorrectAnswerPrefix)
    /\ lines' = Tail(lines)

\* what follows the first colon of s
AfterFirstColon(s) == SliceFrom(s, Find(s, <<":">>))

\* what precedes the first colon of s, all of s when it has none
BeforeFirstColon(s) ==
    IF Find(s, <<":">>) = 0 THEN s ELSE SubSeq(s, 1, Find(s, <<":">>) - 1)

\* the step sets the correct label of the question in progress to `label`
\* and leaves the rest of the parser state as it was
SetsLabel(label) ==
    /\ current_question' = [current_question EXCEPT
                               !.keys = @ \cup {"correct_answer"},
                               !.correct_answer = label]
    /\ p_questions' = p_questions

\* C16 as stated: the label becomes the trimmed text of everything after the
\* first colon of the line, further colons included.
C16_LabelAfterFirstColon ==
    [][ReadsCorrectLine => SetsLabel(Strip(AfterFirstColon(Strip(Head(lines)))))]_vars

\* C16, amended: the label becomes the trimmed text between the first colon
\* of the line and the second one, or the end of the line when there is no
\* second colon.
C16_LabelUpToSecondColon ==
    [][ReadsCorrectLine =>
          SetsLabel(Strip(BeforeFirstColon(AfterFirstColon(Strip(Head(lines))))))]_vars

\* the line just read is 'Correct Answer: B: a', and the label is 'B'
C16_Witness ==
    /\ p_pc = "loop"
    /\ Len(lines) < Len(Split(mcqs_text, <<NL>>))
    /\ Split(mcqs_text, <<NL>>)[Len(Split(mcqs_text, <<NL>>)) - Len(lines)]
          = CorrectAnswerPrefix \o <<" ", "B", ":", " ", "a">>
    /\ "correct_answer" \in current_question.keys
    /\ current_question.correct_answer = <<"B">>

(***************************************************************************)
(* Failing generations (Spec).                                             *)
(***************************************************************************)
\* the last run clicked Generate MCQs, and generate_mcqs or parse_mcqs raised
GenFailed ==
    /\ gen_call.made
    /\ \/ ~gen_call.returned.has
       \/ ParsedGen[gen_call.returned.val].error # ""

\* C17: a Generate MCQs run in which the generation call or the parsing fails
\* leaves the stored questions, answers and submitted flag as they were, and
\* presents no quiz.
C17_FailedGenerationKeepsSession ==
    [][GenFailed' =>
          /\ questions' = questions
          /\ answers' = answers
          /\ submitted' = submitted
          /\ page'.nradios = 0
          /\ score' = NoScore]_vars

\* parse_mcqs raised in a Generate MCQs run on a submitted session, which is
\* still stored
C17_Witness ==
    /\ gen_call.made
    /\ gen_call.returned = Some(OptionFirstText)
    /\ error = Raised("KeyError", "parse_mcqs")
    /\ submitted
    /\ questions.has
    /\ questions.val # <<>>
    /\ Len(answers.val) = Len(questions.val)

(***************************************************************************)
(* Arbitrary input texts (SpecParse).                                      *)
(***************************************************************************)
\* the lines of t that begin with Q: once stripped, by their positions
QLinesOf(t) ==
    {k \in 1..Len(Split(t, <<NL>>)) : StartsWith(Strip(Split(t, <<NL>>)[k]), QPrefix)}

\* C18: on every input text parse_mcqs raises nothing and returns one question
\* per line beginning with Q:, each a dict with a question text; lines before
\* the first Q: line add no element and cause no failure.
C18_OneQuestionPerQLine ==
    /\ p_pc # "KeyError"
    /\ p_pc = "done" =>
          /\ Len(p_questions) = Cardinality(QLinesOf(mcqs_text))
          /\ \A i \in 1..Len(p_questions) : "question" \in p_questions[i].keys

(***************************************************************************)
(* The answers list (Spec).                                                *)
(***************************************************************************)
\* C19: whenever a question list is stored, and so whenever a non-empty one is
\* presented, the answers list exists and has one entry per question.
C19_AnswersMatchQuestions ==
    /\ questions.has =>
          (answers.has /\ Len(answers.val) = Len(questions.val))
    /\ page.nradios > 0 =>
          (questions.has /\ answers.has /\ page.nradios <= Len(answers.val))

\* a quiz of three questions is presented with three answers, one of them selected
C19_Witness ==
    /\ questions.has
    /\ Len(questions.val) = 3
    /\ page.nradios = 3
    /\ Len(answers.val) = 3
    /\ Truthy(answers.val[2])
    /\ ~Truthy(answers.val[3])

(***************************************************************************)
(* What the generation collaborator receives (Spec).                       *)
(***************************************************************************)
\* C20: in a run that calls generate_mcqs, the translated transcript passed is
\* the translation, into the language selected in that run, of the transcript
\* of the video whose URL is entered in that run.
C20_GeneratesFromCurrentInputs ==
    gen_call.made =>
        gen_call.transcript =
            [of |-> extract_video_id(video_url), lang |-> LanguageCode(language)]

====
